---- MODULE Spec2Model ----
(***************************************************************************)
(* A model of bulk_downloader.py: the BulkDownloader class (cookie         *)
(* validation and renewal, the resumable per-file download, the batch      *)
(* loop) and the __main__ block that drives it.                            *)
(*                                                                         *)
(* The network, the local file system and the console are the environment: *)
(* every response of a server and every byte another process may add to a  *)
(* file is chosen nondeterministically from the sets defined below.        *)
(***************************************************************************)
EXTENDS Integers, Sequences, FiniteSets, TLC

VARIABLES
    pc,              \* position of the process in __main__ / __init__
    exit_code,       \* exit status of the process (-1 while it runs)
    file_urls,       \* self.file_urls
    expected_md5,    \* the expected_md5 argument of download_file, per target
    jar_file,        \* the file ~/.bulk_download_cookiejar.txt
    cookie_jar,      \* self.cookie_jar (in memory)
    session_cookies, \* session.cookies of the Session made by get_new_cookie
    validate_status, \* outcome of the request of check_or_get_cookie
    renew_status,    \* outcome of the request of get_new_cookie
    prompts,         \* number of console prompts issued (input, getpass)
    disk,            \* the working directory: file name -> content or NoFile
    idx,             \* index of the next target of the loop of download_files
    success,         \* self.success
    failed,          \* self.failed
    total_bytes,     \* self.total_bytes
    total_time,      \* self.total_time
    now,             \* time.time()
    start_time,      \* start_time of download_files
    net,             \* every HTTP request issued so far, in order
    stdout,          \* what __init__ has printed, in order
    last,            \* what the latest download_file call saw and printed
    progress         \* what show_progress wrote to sys.stdout, latest call

vars == <<pc, exit_code, file_urls, expected_md5, jar_file, cookie_jar,
          session_cookies, validate_status, renew_status, prompts, disk, idx,
          success, failed, total_bytes, total_time, now, start_time, net, stdout,
          last, progress>>

----------------------------------------------------------------------------
(* Bounds of the model *)

\* longest target list handed to BulkDownloader
MaxTargets == 2
\* longest file found in the working directory before the run
MaxLocal == 2
\* largest byte count handed to show_progress on its own
MaxBytes == 4
\* most calls of show_progress made in a row
MaxReports == 2

----------------------------------------------------------------------------
(* Values *)

\* a file of the working directory: absent, or its bytes
NoFile == [exists |-> FALSE, content |-> <<>>]
File(content) == [exists |-> TRUE, content |-> content]

\* the cookie-jar file: absent, or a jar in the Netscape layout
NoJar == [kind |-> "absent", cookies |-> {}]
JarFile(cookies) == [kind |-> "jar", cookies |-> cookies]
\* the empty string / None of Python: both are false in `if expected_md5:`
NoMD5 == <<>>

\* header sets are sets of <<name, value>> pairs
HeaderGet(headers, key, default) ==
    IF \E p \in headers : p[1] = key
    THEN (CHOOSE p \in headers : p[1] = key)[2]
    ELSE default

ContentLength(n) == {<<"Content-Length", n>>}

----------------------------------------------------------------------------
(* The targets and what the data server holds for them *)

UrlA  == [host |-> "datapool", path |-> <<"SLC", "a.zip">>]
UrlB  == [host |-> "datapool", path |-> <<"SLC", "b.zip">>]
UrlA2 == [host |-> "mirror",   path |-> <<"SLC", "a.zip">>]
UrlDir == [host |-> "datapool", path |-> <<"SLC", "">>]

\* the targets a caller may hand over: two that share their last path segment
\* and one whose path ends with a slash
TargetUrls == {UrlA, UrlA2, UrlDir}

\* the urls list of the __main__ block: two URLs of the same directory
MainUrls == <<UrlA, UrlB>>

test_url == [host |-> "urs", path |-> <<"profile">>]
auth_url == [host |-> "urs", path |-> <<"oauth", "authorize">>]

\* the bytes the server holds for a URL
RemoteContent(url) ==
    CASE url = UrlA   -> <<1, 2>>
      [] url = UrlB   -> <<2, 1>>
      [] url = UrlA2  -> <<1, 1, 2>>
      [] OTHER        -> <<1>>

FileNames == {"a.zip", "b.zip"}

\* what may lie in the working directory before the run: nothing, or a file
\* of at most MaxLocal bytes (a prefix of some remote content, or not)
LocalContents ==
    {NoFile} \cup {File(c) : c \in UNION {[1..n -> {1}] : n \in 0..MaxLocal}}

----------------------------------------------------------------------------
(* hashlib.md5: distinct contents have distinct digests *)

calculate_md5(d, file_path) == <<0>> \o d[file_path].content

DigestOf(content) == <<0>> \o content

----------------------------------------------------------------------------
(* The environment: HTTP servers *)

Request(method, url, range, cookies) ==
    [method |-> method, url |-> url, range |-> range, cookies |-> cookies]

NoResponse ==
    [kind |-> "none", status |-> 0, headers |-> {}, body |-> <<>>, broken |-> FALSE]

\* requests raises a RequestException instead of returning a response
ErrorResponse ==
    [kind |-> "error", status |-> 0, headers |-> {}, body |-> <<>>, broken |-> FALSE]

\* broken: the stream raises after `body` has been delivered
Response(status, headers, body, broken) ==
    [kind |-> "resp", status |-> status, headers |-> headers, body |-> body,
     broken |-> broken]

\* how a server may treat a HEAD: requests.head follows no redirect, so a
\* 302 comes back as it is, without the size of the file
HeadBehaviours == {"error", "honest", "nolength", "redirect"}

ServerHead(behaviour, req) ==
    CASE behaviour = "error"    -> ErrorResponse
      [] behaviour = "honest"   ->
            Response(200, ContentLength(Len(RemoteContent(req.url))), <<>>, FALSE)
      [] behaviour = "nolength" -> Response(200, {}, <<>>, FALSE)
      [] OTHER                  -> Response(302, {}, <<>>, FALSE)

\* the body of an answer that is not the file: a page of one byte
Page == <<1>>

\* how a server may treat a GET
\*   honest   : the bytes asked for (206 to a Range, 200 otherwise; 416 when
\*              the range starts at or after the end), with their length
\*   nolength : the same without a Content-Length header (chunked encoding)
\*   cut      : the stream ends one byte early without an error
\*   broken   : the stream ends one byte early with a transport error
\*   full     : ignores the Range header: 200 and the whole file
\*   fullbroken : ignores the Range header, and the stream of the whole file
\*              ends one byte early with a transport error
\*   notmod   : a 3xx without a Location (304), no body
\*   choices  : a 3xx that requests does not follow (300 Multiple Choices),
\*              with a page of one byte as its body
\*   notfound : 404
\*   error    : no response: timeout, DNS failure, connection reset
GetBehaviours ==
    {"error", "notfound", "notmod", "honest", "nolength", "cut", "broken", "full",
     "fullbroken", "choices"}

ServerGet(behaviour, req) ==
    LET content == RemoteContent(req.url)
        ranged  == req.range # <<>>
        offset  == IF ranged THEN req.range[1] ELSE 0
        rest    == SubSeq(content, offset + 1, Len(content))
        status  == IF ranged THEN 206 ELSE 200
        short   == SubSeq(rest, 1, Len(rest) - 1)
    IN  CASE behaviour = "error"    -> ErrorResponse
          [] behaviour = "notfound" -> Response(404, {}, <<>>, FALSE)
          [] behaviour = "notmod"   -> Response(304, {}, <<>>, FALSE)
          [] behaviour = "choices"  -> Response(300, ContentLength(1), Page, FALSE)
          [] behaviour = "full"     ->
                Response(200, ContentLength(Len(content)), content, FALSE)
          [] behaviour = "fullbroken" ->
                Response(200, ContentLength(Len(content)),
                         SubSeq(content, 1, Len(content) - 1), TRUE)
          [] ranged /\ offset >= Len(content) -> Response(416, {}, <<>>, FALSE)
          [] behaviour = "honest"   ->
                Response(status, ContentLength(Len(rest)), rest, FALSE)
          [] behaviour = "nolength" -> Response(status, {}, rest, FALSE)
          [] behaviour = "cut"      ->
                Response(status, ContentLength(Len(rest)), short, FALSE)
          [] OTHER                  ->
                Response(status, ContentLength(Len(rest)), short, TRUE)

\* the identity provider: 200 or 401, or no response at all
AuthResponses ==
    {Response(200, {}, <<>>, FALSE), Response(401, {}, <<>>, FALSE), ErrorResponse}

\* the cookies a 200 of the authorization endpoint sets
IssuedCookies == {"urs_session"}

\* the cookies of an earlier run
OldCookies == {"old_session"}

----------------------------------------------------------------------------
(* The local file system *)

os_path_basename(url) ==
    IF Len(url.path) = 0 THEN "" ELSE url.path[Len(url.path)]

os_path_exists(d, name) == name \in DOMAIN d /\ d[name].exists

os_path_getsize(d, name) == Len(d[name].content)

\* open(name, mode): the content the handle starts from; "" names no file
CanOpen(d, name) == name \in DOMAIN d

Opened(d, name, mode) == IF mode = "ab" THEN d[name].content ELSE <<>>

\* bytes another process appends to the file between close and getsize
Foreign(n) == [i \in 1..n |-> 1]

----------------------------------------------------------------------------
(* BulkDownloader.verify_file_integrity: TRUE when it returns, FALSE when it *)
(* raises ValueError                                                         *)

\* the comparison of line 99 left out
verify_file_integrity_skipped(d, local_filename, md5) == TRUE

verify_file_integrity(d, local_filename, md5) ==
    IF md5 # NoMD5
    THEN calculate_md5(d, local_filename) = md5
    ELSE TRUE

\* Response.raise_for_status: TRUE when it returns, FALSE when it raises
\* HTTPError, which it does for the statuses 400..599
raise_for_status(response) ==
    ~(response.status >= 400 /\ response.status < 600)

----------------------------------------------------------------------------
(* BulkDownloader.show_progress: what the call writes to sys.stdout, or the *)
(* exception it raises.  The percentage is written with two decimals         *)
(* ({percent:.2f}): it is kept in hundredths of a percent.                   *)

\* a / b to the nearest integer, for a >= 0 and b > 0.  No tie occurs for the
\* quotients taken here (a = 10000 * downloaded, b < 32), so the rule the
\* format applies to a tie plays no part.
Rounded(a, b) == (2 * a + b) \div (2 * b)

ProgressLine(downloaded, total, hundredths) ==
    [raised |-> "", downloaded |-> downloaded, total |-> total,
     percent |-> hundredths]

\* the / operator of Python raises when the divisor is 0
ZeroDivisionError(downloaded, total) ==
    [raised |-> "ZeroDivisionError", downloaded |-> downloaded, total |-> total,
     percent |-> 0]

\* line 155 without its condition: the division is made whatever total is
show_progress_unguarded(downloaded, total) ==
    IF total = 0 THEN ZeroDivisionError(downloaded, total)
    ELSE ProgressLine(downloaded, total, Rounded(downloaded * 10000, total))

\* lines 154-157
show_progress(downloaded, total) ==
    IF total # 0
    THEN ProgressLine(downloaded, total, Rounded(downloaded * 10000, total))
    ELSE ProgressLine(downloaded, total, 0)

----------------------------------------------------------------------------
(* BulkDownloader.download_file, as a function of the state it reads and of  *)
(* what the environment does during the call.  The result names the new      *)
(* working directory, the list the call appends to and the entry appended,   *)
(* the bytes added to total_bytes, the requests issued, and what was seen.   *)

Outcome(d, how, entry, bytes, requests, head, get, message) ==
    [disk |-> d, how |-> how, entry |-> entry, bytes |-> bytes,
     requests |-> requests, head |-> head, get |-> get, message |-> message,
     progress |-> <<>>]

\* lines 114-115 and 146-147
RecordSuccess(d, local_filename, size, requests, head, get, message) ==
    Outcome(d, "success", local_filename, size, requests, head, get, message)

\* the except clause without its append: the exception is swallowed
RecordFailureLost(d, url, requests, head, get, message) ==
    Outcome(d, "lost", url, 0, requests, head, get, message)

\* the except clause followed by a second try: the requests are sent again
RecordFailureRetried(d, url, requests, head, get, message) ==
    Outcome(d, "failed", url, 0, requests \o requests, head, get, message)

\* lines 150-152
RecordFailure(d, url, requests, head, get, message) ==
    Outcome(d, "failed", url, 0, requests, head, get, message)

\* an exception that is neither a RequestException nor a ValueError
Uncaught(d, url, requests, head, get, message) ==
    Outcome(d, "raised", url, 0, requests, head, get, message)

\* line 118
RangeHeader(local_size) == <<local_size>>

\* line 129
OpenMode(local_size) == IF local_size > 0 THEN "ab" ELSE "wb"

\* line 126 without the local size
ExpectedTotalOfResponse(response, local_size) ==
    HeaderGet(response.headers, "Content-Length", 0)

\* line 126
ExpectedTotal(response, local_size) ==
    HeaderGet(response.headers, "Content-Length", 0) + local_size

\* lines 131-135: one call of show_progress per chunk written; a chunk of the
\* model is one byte
StreamProgress(response, local_size, total_size) ==
    [k \in 1..Len(response.body) |-> show_progress(local_size + k, total_size)]

\* the outcome of a call whose loop of lines 131-135 ran
Streamed(outcome, reports) == [outcome EXCEPT !.progress = reports]

\* lines 124-148: the GET and what follows it
Fetch(d, jar, url, md5, local_filename, local_size, resumed, sent, head, getBehaviour, foreign) ==
    LET request  == Request("GET", url,
                            IF resumed THEN RangeHeader(local_size) ELSE <<>>, jar)
        requests == Append(sent, request)
        response == ServerGet(getBehaviour, request)
        total_size == ExpectedTotal(response, local_size)
        mode     == OpenMode(local_size)
        written  == Opened(d, local_filename, mode) \o response.body
        downloaded_size == local_size + Len(response.body)
        d1       == [d EXCEPT ![local_filename] = File(written)]
        d2       == [d EXCEPT ![local_filename] = File(written \o Foreign(foreign))]
        file_size == os_path_getsize(d2, local_filename)
        reports  == StreamProgress(response, local_size, total_size)
    IN  IF response.kind = "error"
        THEN RecordFailure(d, url, requests, head, response, "GET failed")
        ELSE IF ~raise_for_status(response)
        THEN RecordFailure(d, url, requests, head, response, "HTTPError")
        ELSE IF ~CanOpen(d, local_filename)
        THEN Uncaught(d, url, requests, head, response, "OSError")
        ELSE Streamed(
             IF response.broken
             THEN RecordFailure(d1, url, requests, head, response, "stream failed")
             ELSE IF downloaded_size # total_size
             THEN RecordFailure(d1, url, requests, head, response,
                                "Downloaded file size")
             ELSE IF file_size # total_size
             THEN RecordFailure(d2, url, requests, head, response, "Final file size")
             ELSE IF ~verify_file_integrity(d2, local_filename, md5)
             THEN RecordFailure(d2, url, requests, head, response, "MD5 mismatch")
             ELSE RecordSuccess(d2, local_filename, file_size, requests, head,
                                response, "Downloaded"),
             reports)

\* line 115 left out
AlreadyCompleteUncounted(d, url, md5, local_filename, local_size, requests, head) ==
    IF verify_file_integrity(d, local_filename, md5)
    THEN RecordSuccess(d, local_filename, 0, requests, head, NoResponse,
                       "File already downloaded completely")
    ELSE RecordFailure(d, url, requests, head, NoResponse, "MD5 mismatch")

\* lines 111-116: the file is already there in full
AlreadyComplete(d, url, md5, local_filename, local_size, requests, head) ==
    IF verify_file_integrity(d, local_filename, md5)
    THEN RecordSuccess(d, local_filename, local_size, requests, head, NoResponse,
                       "File already downloaded completely")
    ELSE RecordFailure(d, url, requests, head, NoResponse, "MD5 mismatch")

\* lines 102-152
download_file(d, jar, url, md5, headBehaviour, getBehaviour, foreign) ==
    LET local_filename == os_path_basename(url)
        exists     == os_path_exists(d, local_filename)
        local_size == IF exists THEN os_path_getsize(d, local_filename) ELSE 0
        request    == Request("HEAD", url, <<>>, jar)
        head       == ServerHead(headBehaviour, request)
        total_size == HeaderGet(head.headers, "Content-Length", 0)
    IN  IF ~exists
        THEN Fetch(d, jar, url, md5, local_filename, 0, FALSE, <<>>, NoResponse,
                   getBehaviour, foreign)
        ELSE IF head.kind = "error"
        THEN RecordFailure(d, url, <<request>>, head, NoResponse, "HEAD failed")
        ELSE IF local_size = total_size
        THEN AlreadyComplete(d, url, md5, local_filename, local_size, <<request>>,
                             head)
        ELSE Fetch(d, jar, url, md5, local_filename, local_size, TRUE, <<request>>,
                   head, getBehaviour, foreign)

----------------------------------------------------------------------------
(* The program *)

NoCall == [target |-> 0, how |-> "none", head |-> NoResponse, get |-> NoResponse,
           message |-> ""]

\* MozillaCookieJar.load, lines 52-53
Loaded(file) == IF file.kind = "jar" THEN file.cookies ELSE {}

\* MozillaCookieJar.save(ignore_discard=True, ignore_expires=True), line 83:
\* the file holds the cookies of the jar that is saved
Saved(jar) == JarFile(jar)

\* Session.get(auth_url, cookies=self.cookie_jar), line 80: requests sends the
\* cookies of the jar passed with the call merged with the session's, and puts
\* the cookies of the response into session.cookies; the jar passed with the
\* call is read, never written
SessionCookiesAfter(jar, response) ==
    jar \cup (IF response.kind = "resp" /\ response.status = 200
              THEN IssuedCookies ELSE {})

\* the jar self.cookie_jar.save writes after a 200 of the renewal, line 83
JarToSave(jar, session) == jar

\* the comparison of line 64 never true: every run renews the cookie
CookieValidNever(response) == FALSE

\* a RequestException of the validation taken for a valid cookie
CookieValidOrError(response) ==
    response.kind = "error" \/ (response.kind = "resp" /\ response.status = 200)

\* any answer of the server taken for a valid cookie
CookieValidAnyStatus(response) == response.kind = "resp"

\* line 64
CookieValid(response) == response.kind = "resp" /\ response.status = 200

\* line 87 left out
AfterRenewalNoExit(response) ==
    IF response.kind = "error" THEN "crashed" ELSE "main"

\* lines 82-87: where get_new_cookie leaves the process
AfterRenewal(response) ==
    IF response.kind = "error" THEN "crashed"
    ELSE IF response.status = 200 THEN "main"
    ELSE "exited"

Line(text, code) == [text |-> text, code |-> code]

\* __init__, lines 43-56, with check_or_get_cookie, lines 58-70, up to the
\* call of get_new_cookie
CheckOrGetCookie ==
    /\ pc = "start"
    /\ \E response \in AuthResponses :
        /\ cookie_jar' = Loaded(jar_file)
        /\ net' = Append(net, Request("GET", test_url, <<>>, cookie_jar'))
        /\ validate_status' = response
        /\ pc' = IF CookieValid(response) THEN "main" ELSE "renew"
        /\ stdout' = stdout \o
              (IF response.kind = "error"
               THEN <<Line("Cookie validation error", 0)>> ELSE <<>>) \o
              (IF CookieValid(response)
               THEN <<Line("Cookie validated successfully.", 0)>>
               ELSE <<Line("Obtaining new cookie...", 0)>>)
    /\ UNCHANGED <<exit_code, file_urls, expected_md5, jar_file, session_cookies,
                   renew_status, prompts, disk, idx, success, failed, total_bytes,
                   total_time, now, start_time, last, progress>>

\* get_new_cookie, lines 73-87
GetNewCookie ==
    /\ pc = "renew"
    /\ prompts' = prompts + 2
    /\ \E response \in AuthResponses :
        /\ net' = Append(net, Request("GET", auth_url, <<>>, cookie_jar))
        /\ renew_status' = response
        /\ session_cookies' = SessionCookiesAfter(cookie_jar, response)
        /\ pc' = AfterRenewal(response)
        /\ IF pc' = "main"
           THEN /\ jar_file' = Saved(JarToSave(cookie_jar, session_cookies'))
                /\ stdout' = Append(stdout, Line("Cookie obtained and saved.", 0))
                /\ UNCHANGED exit_code
           ELSE IF pc' = "exited"
           THEN \* sys.exit(1)
                /\ stdout' = Append(stdout,
                      Line("Failed to obtain cookie. Status code:", response.status))
                /\ exit_code' = 1
                /\ UNCHANGED jar_file
           ELSE \* the RequestException of line 80 is caught nowhere
                /\ exit_code' = 1
                /\ UNCHANGED <<jar_file, stdout>>
    /\ UNCHANGED <<file_urls, expected_md5, cookie_jar, validate_status, disk, idx,
                   success, failed, total_bytes, total_time, now, start_time, last, progress>>

\* download_files, line 160
DownloadFilesBegin ==
    /\ pc = "main"
    /\ start_time' = now
    /\ idx' = 1
    /\ pc' = "loop"
    /\ UNCHANGED <<exit_code, file_urls, expected_md5, jar_file, cookie_jar,
                   session_cookies, validate_status, renew_status, prompts, disk,
                   success, failed, total_bytes, total_time, now, net, stdout,
                   last, progress>>

\* download_files, lines 162-165: one iteration of the loop
DownloadFile ==
    /\ pc = "loop"
    /\ idx <= Len(file_urls)
    /\ \E headBehaviour \in HeadBehaviours, getBehaviour \in GetBehaviours,
          foreign \in 0..1 :
        \E r \in {download_file(disk, cookie_jar, file_urls[idx], expected_md5[idx],
                               headBehaviour, getBehaviour, foreign)} :
            /\ disk' = r.disk
            /\ net' = net \o r.requests
            /\ last' = [target |-> idx, how |-> r.how, head |-> r.head,
                        get |-> r.get, message |-> r.message]
            /\ success' = IF r.how = "success" THEN Append(success, r.entry)
                          ELSE success
            /\ failed' = IF r.how = "failed" THEN Append(failed, r.entry)
                         ELSE failed
            /\ total_bytes' = total_bytes + r.bytes
            /\ progress' = r.progress
            /\ IF r.how = "raised"
               THEN pc' = "crashed" /\ exit_code' = 1 /\ idx' = idx
               ELSE pc' = pc /\ exit_code' = exit_code /\ idx' = idx + 1
    /\ now' = now + 1
    /\ UNCHANGED <<file_urls, expected_md5, jar_file, cookie_jar, session_cookies,
                   validate_status, renew_status, prompts, total_time, start_time,
                   stdout>>

\* download_files, line 167
DownloadFilesEnd ==
    /\ pc = "loop"
    /\ idx > Len(file_urls)
    /\ total_time' = now - start_time
    /\ pc' = "summary"
    /\ UNCHANGED <<exit_code, file_urls, expected_md5, jar_file, cookie_jar,
                   session_cookies, validate_status, renew_status, prompts, disk,
                   idx, success, failed, total_bytes, now, start_time, net, stdout,
                   last, progress>>

\* print_summary, lines 169-183, and the end of __main__
PrintSummary ==
    /\ pc = "summary"
    /\ pc' = "done"
    /\ exit_code' = 0
    /\ UNCHANGED <<file_urls, expected_md5, jar_file, cookie_jar, session_cookies,
                   validate_status, renew_status, prompts, disk, idx, success,
                   failed, total_bytes, total_time, now, start_time, net, stdout,
                   last, progress>>

----------------------------------------------------------------------------
(* The program as written: __main__ with its two URLs, no checksum *)

Disks == [FileNames -> LocalContents]

JarFiles == {NoJar, JarFile(OldCookies)}

Fresh ==
    /\ exit_code = -1
    /\ session_cookies = {}
    /\ renew_status = NoResponse
    /\ prompts = 0
    /\ idx = 0
    /\ success = <<>>
    /\ failed = <<>>
    /\ total_bytes = 0
    /\ total_time = 0
    /\ now = 0
    /\ start_time = 0
    /\ last = NoCall
    /\ progress = <<>>

Init ==
    /\ pc = "start"
    /\ file_urls = MainUrls
    /\ expected_md5 = [i \in 1..Len(MainUrls) |-> NoMD5]
    /\ jar_file \in JarFiles
    /\ cookie_jar = {}
    /\ validate_status = NoResponse
    /\ net = <<>>
    /\ stdout = <<>>
    /\ disk \in Disks
    /\ Fresh

Next ==
    \/ CheckOrGetCookie
    \/ GetNewCookie
    \/ DownloadFilesBegin
    \/ DownloadFile
    \/ DownloadFilesEnd
    \/ PrintSummary

Spec == Init /\ [][Next]_vars

----------------------------------------------------------------------------
(* The download engine on its own: a BulkDownloader whose cookie has just    *)
(* been validated, handed any list of at most MaxTargets targets             *)

TargetLists == UNION {[1..n -> TargetUrls] : n \in 0..MaxTargets}

\* files other than those the targets name play no part
InitDisk(urls) ==
    \A name \in FileNames :
        (\A i \in 1..Len(urls) : os_path_basename(urls[i]) # name)
            => disk[name] = NoFile

Validated ==
    /\ pc = "main"
    /\ jar_file = JarFile(OldCookies)
    /\ cookie_jar = OldCookies
    /\ validate_status = Response(200, {}, <<>>, FALSE)
    /\ net = <<Request("GET", test_url, <<>>, OldCookies)>>
    /\ stdout = <<Line("Cookie validated successfully.", 0)>>
    /\ Fresh

InitFetch ==
    /\ file_urls \in TargetLists
    /\ expected_md5 = [i \in 1..Len(file_urls) |-> NoMD5]
    /\ disk \in Disks
    /\ InitDisk(file_urls)
    /\ Validated

NextFetch ==
    \/ DownloadFilesBegin
    \/ DownloadFile
    \/ DownloadFilesEnd
    \/ PrintSummary

SpecFetch == InitFetch /\ [][NextFetch]_vars

----------------------------------------------------------------------------
(* download_file called with or without an expected checksum (the value     *)
(* line 164 is meant to be replaced by), for one URL listed up to MaxTargets *)
(* times                                                                     *)

ChecksumUrls == {UrlA}

ChecksumLists == UNION {[1..n -> ChecksumUrls] : n \in 0..MaxTargets}

\* none, the checksum of the remote content, or that of the empty file
Checksums(url) == {NoMD5, DigestOf(RemoteContent(url)), DigestOf(<<>>)}

InitMD5 ==
    /\ file_urls \in ChecksumLists
    /\ expected_md5 \in [1..Len(file_urls) -> UNION {Checksums(u) : u \in ChecksumUrls}]
    /\ \A i \in 1..Len(file_urls) : expected_md5[i] \in Checksums(file_urls[i])
    /\ disk \in Disks
    /\ InitDisk(file_urls)
    /\ Validated

SpecMD5 == InitMD5 /\ [][NextFetch]_vars

----------------------------------------------------------------------------
(* show_progress on its own: a caller that holds a BulkDownloader with no    *)
(* target calls the method with any two byte counts up to MaxBytes           *)

ShowProgress ==
    /\ pc = "main"
    /\ Len(progress) < MaxReports
    /\ \E downloaded \in 0..MaxBytes, total \in 0..MaxBytes :
        progress' = Append(progress, show_progress(downloaded, total))
    /\ UNCHANGED <<pc, exit_code, file_urls, expected_md5, jar_file, cookie_jar,
                   session_cookies, validate_status, renew_status, prompts, disk,
                   idx, success, failed, total_bytes, total_time, now, start_time,
                   net, stdout, last>>

InitProgress ==
    /\ file_urls = <<>>
    /\ expected_md5 = <<>>
    /\ disk = [name \in FileNames |-> NoFile]
    /\ Validated

NextProgress == ShowProgress

SpecProgress == InitProgress /\ [][NextProgress]_vars

----------------------------------------------------------------------------
(* Helpers of the properties *)

\* the entries of seq at the positions in S, in order
RECURSIVE Keep(_, _, _)
Keep(seq, S, i) ==
    IF i > Len(seq) THEN <<>>
    ELSE (IF i \in S THEN <<seq[i]>> ELSE <<>>) \o Keep(seq, S, i + 1)

LocalNames == [i \in 1..Len(file_urls) |-> os_path_basename(file_urls[i])]

Returned == pc \in {"summary", "done"}

\* this step is a call of download_file for target idx
Called == pc = "loop" /\ last'.target = idx /\ last' # last

TargetRequests == {i \in 1..Len(net) : net[i].url \notin {test_url, auth_url}}

Answered200(response) == response.kind = "resp" /\ response.status = 200

----------------------------------------------------------------------------
(* C1: once download_files has returned, every target has exactly one entry: *)
(* the targets split into two sets, the success list holds the local file    *)
(* names of the one and the failed list the URLs of the other, both in input *)
(* order, so the two lists hold N entries together.                          *)

C1_OneEntryPerTarget ==
    Returned =>
        /\ Len(success) + Len(failed) = Len(file_urls)
        /\ \E S \in SUBSET (1..Len(file_urls)) :
            /\ success = Keep(LocalNames, S, 1)
            /\ failed = Keep(file_urls, (1..Len(file_urls)) \ S, 1)

\* two targets, one recorded in each list
C1_Witness ==
    pc = "done" /\ Len(file_urls) = 2 /\ Len(success) = 1 /\ Len(failed) = 1

----------------------------------------------------------------------------
(* C2: when a partial file of S bytes exists, the remote file has T > S      *)
(* bytes and download_file issues a GET, that GET carries Range: bytes=S-,   *)
(* and if the call records the target as success the file on disk then has   *)
(* T bytes, whichever 2xx response the server gave to the ranged request, a  *)
(* 200 with the whole file included.                                         *)

C2_ResumeReachesRemoteSize ==
    [][ LET url  == file_urls[idx]
            name == os_path_basename(url)
            S    == os_path_getsize(disk, name)
            T    == Len(RemoteContent(url))
        IN  (Called /\ os_path_exists(disk, name) /\ S < T
                    /\ last'.get.kind # "none")
            => /\ net'[Len(net')] = Request("GET", url, <<S>>, cookie_jar)
               /\ (last'.how = "success" /\ last'.get.status \in 200..299)
                    => os_path_getsize(disk', name) = T ]_vars

----------------------------------------------------------------------------
(* C3: when the local file exists with the size the HEAD response reports    *)
(* and its checksum does not mismatch, download_file issues the HEAD and no  *)
(* GET, leaves the working directory as it is, appends the local file name   *)
(* to the success list and adds the size of the file to total_bytes.         *)

C3_CompleteFileIsSkipped ==
    [][ LET url  == file_urls[idx]
            name == os_path_basename(url)
            size == os_path_getsize(disk, name)
        IN  (Called /\ os_path_exists(disk, name)
                    /\ last'.head.kind = "resp"
                    /\ HeaderGet(last'.head.headers, "Content-Length", 0) = size
                    /\ verify_file_integrity(disk, name, expected_md5[idx]))
            => /\ net' = Append(net, Request("HEAD", url, <<>>, cookie_jar))
               /\ disk' = disk
               /\ success' = Append(success, name)
               /\ failed' = failed
               /\ total_bytes' = total_bytes + size ]_vars

\* a file of two bytes whose HEAD reported two bytes was recorded without a GET
C3_Witness ==
    /\ last.how = "success"
    /\ last.get.kind = "none"
    /\ last.head.headers = ContentLength(2)
    /\ total_bytes >= 2

----------------------------------------------------------------------------
(* C4: a transport error on the HEAD or the GET, a GET answered with a       *)
(* status outside 200..299, a size mismatch at either check or a checksum    *)
(* mismatch makes download_file append the URL of the target to the failed   *)
(* list and nothing to the success list, and the loop goes on.               *)

ErrorSeen(call) ==
    \/ call.head.kind = "error"
    \/ call.get.kind = "error"
    \/ call.get.broken
    \/ call.get.kind = "resp" /\ ~(call.get.status >= 200 /\ call.get.status <= 299)
    \/ call.message \in {"Downloaded file size", "Final file size", "MD5 mismatch"}

C4_ErrorsAreRecordedAsFailures ==
    (last.target > 0 /\ ErrorSeen(last))
        => /\ last.how = "failed"
           /\ failed # <<>>
           /\ failed[Len(failed)] = file_urls[last.target]
           /\ pc \in {"loop", "summary", "done"}

----------------------------------------------------------------------------
(* C5: when download_file is given an expected checksum and the MD5 of the   *)
(* local file differs from it once the call is over, the URL is appended to  *)
(* the failed list, the success list and total_bytes stay as they were; and  *)
(* when the call fails on the checksum the file is still on disk, untouched  *)
(* if no GET was made and with the size expected of it otherwise.            *)

C5_ChecksumMismatchFails ==
    [][ LET url  == file_urls[idx]
            name == os_path_basename(url)
            md5  == expected_md5[idx]
        IN  Called =>
            /\ (md5 # NoMD5 /\ os_path_exists(disk', name)
                            /\ calculate_md5(disk', name) # md5)
               => /\ failed' = Append(failed, url)
                  /\ success' = success
                  /\ total_bytes' = total_bytes
            /\ last'.message = "MD5 mismatch"
               => /\ os_path_exists(disk', name)
                  /\ calculate_md5(disk', name) # md5
                  /\ last'.get.kind = "none" => disk' = disk
                  /\ last'.get.kind = "resp" =>
                        os_path_getsize(disk', name) =
                            HeaderGet(last'.get.headers, "Content-Length", 0)
                            + (IF os_path_exists(disk, name)
                               THEN os_path_getsize(disk, name) ELSE 0) ]_vars

\* the first target failed on its checksum after a GET, the second, the same
\* file, failed on it without a GET
C5_Witness ==
    /\ last.target = 2
    /\ last.message = "MD5 mismatch"
    /\ last.get.kind = "none"
    /\ Len(failed) = 2
    /\ \E i \in TargetRequests : net[i].method = "GET"
    /\ disk["a.zip"] = File(RemoteContent(UrlA))
    /\ total_bytes = 0

----------------------------------------------------------------------------
(* C6: after every completed target total_bytes is the sum, over the entries *)
(* of the success list, of the size on disk of the file the entry names.     *)

RECURSIVE SizeOnDisk(_)
SizeOnDisk(names) ==
    IF names = <<>> THEN 0
    ELSE os_path_getsize(disk, Head(names)) + SizeOnDisk(Tail(names))

C6_TotalBytesIsSizeOnDisk ==
    pc \in {"loop", "summary", "done"} => total_bytes = SizeOnDisk(success)

----------------------------------------------------------------------------
(* C7: after a renewal answered with 200, the cookie-jar file and the jar    *)
(* sent with every later HEAD and GET of a target hold the cookies the       *)
(* renewal session was issued.                                               *)

C7_RenewedCookiesAreSavedAndSent ==
    Answered200(renew_status) =>
        /\ jar_file.kind = "jar"
        /\ IssuedCookies \subseteq jar_file.cookies
        /\ IssuedCookies \subseteq session_cookies
        /\ \A i \in TargetRequests : IssuedCookies \subseteq net[i].cookies

----------------------------------------------------------------------------
(* C8: the process ends with a non-zero exit status only when the renewal    *)
(* request was answered with a status other than 200.                        *)

C8_OnlyRejectedRenewalIsFatal ==
    (exit_code # -1 /\ exit_code # 0) =>
        renew_status.kind = "resp" /\ renew_status.status # 200

----------------------------------------------------------------------------
(* C9: a renewal answered with a status other than 200 prints the status,    *)
(* ends the process at once with exit status 1, leaves the cookie-jar file   *)
(* as it was, and no HEAD or GET of a target is ever issued.                 *)

RenewalRejected == renew_status.kind = "resp" /\ renew_status.status # 200

C9_RejectedRenewalExits ==
    /\ [](RenewalRejected =>
            /\ pc = "exited"
            /\ exit_code = 1
            /\ stdout[Len(stdout)] =
                  Line("Failed to obtain cookie. Status code:", renew_status.status)
            /\ TargetRequests = {}
            /\ idx = 0)
    /\ [][RenewalRejected' => jar_file' = jar_file]_vars
    /\ [][RenewalRejected => UNCHANGED vars]_vars

C9_Witness == RenewalRejected /\ pc = "exited" /\ jar_file = NoJar

----------------------------------------------------------------------------
(* C10: a HEAD or GET of a target is issued only after the validation or the *)
(* renewal was answered with 200; when the validation was not, the renewal   *)
(* request comes before the first request of a target.                       *)

C10_NoDownloadWithoutCredential ==
    \A i \in TargetRequests :
        \/ Answered200(validate_status)
        \/ /\ Answered200(renew_status)
           /\ \E j \in 1..(i - 1) : net[j].url = auth_url

\* the validation was rejected, the renewal answered 200, a target requested
C10_Witness ==
    /\ ~Answered200(validate_status)
    /\ Answered200(renew_status)
    /\ TargetRequests # {}

----------------------------------------------------------------------------
(* C11: when the validation request is answered with 200 the renewal path is *)
(* skipped: no prompt is ever issued, no request is sent to the              *)
(* authorization endpoint, and no step writes the cookie-jar file.           *)

AuthRequests == {i \in 1..Len(net) : net[i].url = auth_url}

C11_ValidCookieSkipsRenewal ==
    /\ [](Answered200(validate_status) =>
            /\ prompts = 0
            /\ AuthRequests = {}
            /\ renew_status = NoResponse
            /\ pc # "renew")
    /\ [][Answered200(validate_status') => jar_file' = jar_file]_vars

\* a run with a valid cookie came to its end without a prompt
C11_Witness ==
    /\ Answered200(validate_status)
    /\ pc = "done"
    /\ prompts = 0
    /\ jar_file = JarFile(OldCookies)

----------------------------------------------------------------------------
(* C12: a transport error of the validation request does not end the         *)
(* process: like any answer other than 200 it leads to get_new_cookie, which *)
(* prompts and sends the renewal request before anything else happens.       *)

ValidationFailed == validate_status.kind = "error"

ValidationRejected == validate_status.kind = "resp" /\ validate_status.status # 200

C12_ValidationErrorLeadsToRenewal ==
    /\ [][(pc = "start" /\ (ValidationFailed' \/ ValidationRejected'))
            => /\ pc' = "renew"
               /\ exit_code' = -1
               /\ stdout'[Len(stdout')] = Line("Obtaining new cookie...", 0)
               /\ prompts' = 0]_vars
    /\ []((ValidationFailed \/ ValidationRejected) =>
            \/ pc = "renew"
            \/ prompts = 2 /\ AuthRequests # {} /\ renew_status # NoResponse)

\* the validation timed out, the renewal was answered with 200 and the run
\* went on to its end
C12_Witness ==
    /\ ValidationFailed
    /\ stdout[1] = Line("Cookie validation error", 0)
    /\ prompts = 2
    /\ pc = "done"

----------------------------------------------------------------------------
(* C13: show_progress(downloaded, total) raises nothing; with total = 0 it   *)
(* reports 0% whatever downloaded is, and with total > 0 it reports          *)
(* downloaded / total * 100, written with two decimals: the hundredth of a   *)
(* percent nearest to the quotient.                                          *)

C13_ProgressPercent ==
    \A i \in 1..Len(progress) :
        LET line == progress[i]
            diff == line.percent * line.total - 10000 * line.downloaded
        IN  /\ line.raised = ""
            /\ line.total = 0 => line.percent = 0
            /\ line.total > 0 => /\ 2 * diff <= line.total
                                 /\ -2 * diff <= line.total

\* 3 bytes of an unknown total reported as 0.00%, then 1 byte of 3 as 33.33%
C13_Witness ==
    /\ Len(progress) = 2
    /\ progress[1] = ProgressLine(3, 0, 0)
    /\ progress[2] = ProgressLine(1, 3, 3333)

----------------------------------------------------------------------------
(* C14: a call of download_file that streams the response of its GET into   *)
(* the local file records the target as success only if the byte counter    *)
(* (the local size found plus the bytes streamed) and the size of the file  *)
(* read back from disk both equal the local size found plus the             *)
(* Content-Length of the response (0 when the header is missing); when the  *)
(* response has a 2xx status and either differs, the URL is appended to the *)
(* failed list and the bytes written stay on disk.                          *)

\* the size download_file found before its requests (0 for no file)
LocalSize(name) ==
    IF os_path_exists(disk, name) THEN os_path_getsize(disk, name) ELSE 0

C14_SuccessNeedsBothSizes ==
    [][ LET url      == file_urls[idx]
            name     == os_path_basename(url)
            response == last'.get
            local    == LocalSize(name)
            expected == local + HeaderGet(response.headers, "Content-Length", 0)
            counter  == local + Len(response.body)
            before   == IF local > 0 THEN disk[name].content ELSE <<>>
        IN  (Called /\ response.kind = "resp" /\ CanOpen(disk, name))
            => /\ last'.how = "success"
                    => /\ counter = expected
                       /\ os_path_getsize(disk', name) = expected
                       /\ success' = Append(success, name)
               /\ (/\ response.status \in 200..299
                   /\ \/ counter # expected
                      \/ os_path_getsize(disk', name) # expected)
                    => /\ last'.how = "failed"
                       /\ failed' = Append(failed, url)
                       /\ success' = success
                       /\ os_path_exists(disk', name)
                       /\ SubSeq(disk'[name].content, 1, counter)
                            = before \o response.body ]_vars

\* the first target was streamed and recorded; the second resumed the same
\* file, and the size read back from disk was not the expected one
C14_Witness ==
    /\ Len(success) = 1
    /\ last.target = 2
    /\ last.how = "failed"
    /\ last.message = "Final file size"
    /\ last.get.status = 206
    /\ os_path_getsize(disk, "a.zip") = 4

----------------------------------------------------------------------------
(* C15: when the local file is absent or a prefix of the remote content      *)
(* before a call of download_file, then (1) if the call ends in failure, for *)
(* a reason other than bytes another process added to the file, the file is  *)
(* again absent or a prefix of the remote content, and (2) if the server     *)
(* answers the HEAD and the GET correctly and honours Range, the call        *)
(* records success and leaves the file equal to the remote content.          *)

IsPrefix(a, b) == Len(a) <= Len(b) /\ a = SubSeq(b, 1, Len(a))

\* the file download_file would resume for url is absent or a prefix of what
\* the server holds
Resumable(d, url) ==
    LET name == os_path_basename(url)
    IN  os_path_exists(d, name) => IsPrefix(d[name].content, RemoteContent(url))

\* the call of this step was answered by a server that honours Range
AnsweredCorrectly(url) ==
    /\ last'.head \in {NoResponse, ServerHead("honest", Request("HEAD", url, <<>>, cookie_jar))}
    /\ last'.get \in {NoResponse, ServerGet("honest", net'[Len(net')])}
    /\ last'.message # "Final file size"

C15_FailureLeavesResumableFile ==
    [][ LET url  == file_urls[idx]
            name == os_path_basename(url)
        IN  (Called /\ CanOpen(disk, name) /\ Resumable(disk, url))
            => /\ (last'.how = "failed" /\ last'.message # "Final file size")
                    => Resumable(disk', url)
               /\ AnsweredCorrectly(url)
                    => /\ last'.how = "success"
                       /\ disk'[name] = File(RemoteContent(url)) ]_vars

----------------------------------------------------------------------------
(* C16: the targets are handled in input order, one at a time and once: a    *)
(* step that sends requests to the data server is the call of download_file  *)
(* for target idx, made when the idx - 1 targets before it are all in the    *)
(* success or the failed list; it sends at most one HEAD, then at most one   *)
(* GET, all for the URL of that target; it ends with the target appended to  *)
(* one of the lists and idx moved to the next target, or with the process    *)
(* ended; idx never moves back.                                              *)

Recorded == Len(success) + Len(failed)

MethodsOf(requests) == [k \in 1..Len(requests) |-> requests[k].method]

C16_InOrderOnceEach ==
    /\ [][ (net' # net /\ pc = "loop")
            => LET new == SubSeq(net', Len(net) + 1, Len(net'))
               IN  /\ Called
                   /\ net' = net \o new
                   /\ MethodsOf(new) \in {<<"HEAD">>, <<"GET">>, <<"HEAD", "GET">>}
                   /\ \A k \in 1..Len(new) : new[k].url = file_urls[idx]
                   /\ Recorded = idx - 1
                   /\ \/ idx' = idx + 1 /\ Recorded' = idx
                      \/ pc' = "crashed" /\ Recorded' = Recorded ]_vars
    /\ [][ (pc \in {"loop", "summary", "done", "crashed"})
            => /\ idx' \in {idx, idx + 1}
               /\ (pc # "loop" => net' = net) ]_vars

\* two targets, each asked for with a HEAD and a GET, the first before the
\* second
C16_Witness ==
    /\ pc = "done"
    /\ file_urls = <<UrlA, UrlA2>>
    /\ MethodsOf(net) = <<"GET", "HEAD", "GET", "HEAD", "GET">>
    /\ net[3].url = UrlA
    /\ net[4].url = UrlA2

----------------------------------------------------------------------------
(* C17: once the cookie is validated, download_files finishes: the process   *)
(* is on its way through the list or has reached the summary, it never ends  *)
(* anywhere else; and at the summary every target is in the success or the   *)
(* failed list and total_time is the time elapsed since the loop began.      *)
(* Every network call of the model returns or raises within its step, so a   *)
(* run can fail to finish only by ending early: the statement is given as    *)
(* the invariant a finite run refutes.                                       *)

C17_DownloadFilesFinishes ==
    /\ pc \in {"main", "loop", "summary", "done"}
    /\ Returned =>
        /\ Recorded = Len(file_urls)
        /\ idx = Len(file_urls) + 1
        /\ total_time = now - start_time

----------------------------------------------------------------------------
(* C18: when a local file of S > 0 bytes exists before a call of             *)
(* download_file, the file is never truncated or rewritten: after the call   *)
(* it has at least S bytes and its first S bytes are the bytes it had; and   *)
(* when the GET raised a transport error or was answered with a status       *)
(* outside 200..299, the file is byte for byte what it was.                  *)

C18_ExistingBytesAreKept ==
    [][ LET name == os_path_basename(file_urls[idx])
            S    == LocalSize(name)
        IN  (Called /\ S > 0)
            => /\ os_path_exists(disk', name)
               /\ os_path_getsize(disk', name) >= S
               /\ SubSeq(disk'[name].content, 1, S) = disk[name].content
               /\ (\/ last'.get.kind = "error"
                   \/ /\ last'.get.kind = "resp"
                      /\ last'.get.status \notin 200..299)
                    => disk'[name] = disk[name] ]_vars

----------------------------------------------------------------------------
(* C19: a target recorded as success without a GET had its size reported by  *)
(* the HEAD: the HEAD response had a status in 200..299 and a Content-Length *)
(* header.                                                                   *)

HasHeader(response, key) == \E p \in response.headers : p[1] = key

C19_ShortcutNeedsReportedSize ==
    (last.how = "success" /\ last.get.kind = "none")
        => /\ last.head.kind = "resp"
           /\ last.head.status \in 200..299
           /\ HasHeader(last.head, "Content-Length")

----------------------------------------------------------------------------
(* C20: when the URLs of the target list are pairwise distinct, the targets  *)
(* recorded as success have pairwise distinct files: no file is counted for  *)
(* two targets, whether the later one skipped it, appended to it or wrote it *)
(* again.                                                                    *)

PairwiseDistinct(seq) ==
    \A i, j \in 1..Len(seq) : i # j => seq[i] # seq[j]

C20_OneFilePerTarget ==
    PairwiseDistinct(file_urls) => PairwiseDistinct(success)

====
